---- MODULE Spec2Model ----
(***************************************************************************)
(* Model of hpm-data-gen's header extractors: src/dma.rs (DMAMUX request   *)
(* table -> per-peripheral DmaChannel records) and src/interrupts.rs       *)
(* (IRQ table loader, per-peripheral Interrupt records).                   *)
(*                                                                         *)
(* Rust strings are modelled as sequences of one-character strings so      *)
(* that starts_with, contains, split and the numeric parsers are computed  *)
(* the way the code computes them.                                         *)
(***************************************************************************)
EXTENDS Integers, Sequences, FiniteSets, TLC

VARIABLES chip, pre, sdk, call, fills

vars == <<chip, pre, sdk, call, fills>>

(* ---------------------------- bounds ---------------------------------- *)
MaxLines == 2
MaxCores == 2
MaxFills == 2

(* ----------------------- string primitives ---------------------------- *)
StartsWith(s, p) ==
    /\ Len(p) <= Len(s)
    /\ SubSeq(s, 1, Len(p)) = p

Contains(s, c) == \E i \in 1..Len(s) : s[i] = c

UnderscoreAt(s) == {i \in 1..Len(s) : s[i] = "_"}

MinOf(S) == CHOOSE x \in S : \A y \in S : x <= y

MaxOf(S) == CHOOSE x \in S : \A y \in S : x >= y

\* str::split('_').next(): the text before the first '_' (all of it if none)
SplitFirst(s) ==
    IF UnderscoreAt(s) = {} THEN s
    ELSE SubSeq(s, 1, MinOf(UnderscoreAt(s)) - 1)

\* str::split("_").last(): the text after the last '_' (all of it if none)
SplitLast(s) ==
    IF UnderscoreAt(s) = {} THEN s
    ELSE SubSeq(s, MaxOf(UnderscoreAt(s)) + 1, Len(s))

None == [some |-> FALSE, v |-> <<>>]

Some(x) == [some |-> TRUE, v |-> x]

(* ------------------------ character classes --------------------------- *)
Digits == {"0", "1", "2", "3", "4", "5", "6", "7", "8", "9"}

HexUpper == Digits \cup {"A", "B", "C", "D", "E", "F"}

Letters == {"A", "B", "C", "D", "E", "F", "G", "H", "I", "J", "K", "L", "M",
            "N", "O", "P", "Q", "R", "S", "T", "U", "V", "W", "X", "Y", "Z",
            "a", "b", "c", "d", "e", "f"}

\* regex class \w
WordChars == Letters \cup Digits \cup {"_"}

AllIn(s, C) == \A i \in 1..Len(s) : s[i] \in C

(* --------------------------- literals --------------------------------- *)
S_DMAMUX == <<"D", "M", "A", "M", "U", "X">>
S_GLOBAL == <<"G", "L", "O", "B", "A", "L">>
S_CH == <<"C", "H">>
S_P == <<"P">>
S_UART == <<"U", "A", "R", "T">>
S_I2C == <<"I", "2", "C">>
S_GPTMR == <<"G", "P", "T", "M", "R">>
S_NTMR == <<"N", "T", "M", "R">>
S_GPIO == <<"G", "P", "I", "O">>
S_ACMP == <<"A", "C", "M", "P">>
S_HPM53 == <<"H", "P", "M", "5", "3">>
S_HPM5E == <<"H", "P", "M", "5", "E">>
S_HPM62 == <<"H", "P", "M", "6", "2">>
S_HPM63 == <<"H", "P", "M", "6", "3">>
S_HPM67 == <<"H", "P", "M", "6", "7">>
S_HPM64 == <<"H", "P", "M", "6", "4">>
S_HPM68 == <<"H", "P", "M", "6", "8">>
S_HPM6E == <<"H", "P", "M", "6", "E">>
S_HPM6P == <<"H", "P", "M", "6", "P">>

(* ------------------- names used as inputs ----------------------------- *)
S_UART1 == <<"U", "A", "R", "T", "1">>
S_UART10 == <<"U", "A", "R", "T", "1", "0">>
S_I2C0 == <<"I", "2", "C", "0">>
S_GPTMR0 == <<"G", "P", "T", "M", "R", "0">>
S_NTMR0 == <<"N", "T", "M", "R", "0">>
S_ADC0 == <<"A", "D", "C", "0">>
S_GPIO0 == <<"G", "P", "I", "O", "0">>
S_ACMP0 == <<"A", "C", "M", "P", "0">>
S_DAC == <<"D", "A", "C">>
S_DAC0 == <<"D", "A", "C", "0">>
S_UART1_RX == <<"U", "A", "R", "T", "1", "_", "R", "X">>
S_UART10_RX == <<"U", "A", "R", "T", "1", "0", "_", "R", "X">>
S_GPTMR0_CH1 == <<"G", "P", "T", "M", "R", "0", "_", "C", "H", "1">>
S_GPTMR0_1 == <<"G", "P", "T", "M", "R", "0", "_", "1">>
S_NTMR0_2 == <<"N", "T", "M", "R", "0", "_", "2">>
S_UART1_ == <<"U", "A", "R", "T", "1", "_">>
S_I2C1_TX_DATA == <<"I", "2", "C", "1", "_", "T", "X", "_", "D", "A", "T", "A">>
S_UART10_ERR == <<"U", "A", "R", "T", "1", "0", "_", "E", "R", "R">>
S_GPIO0_A == <<"G", "P", "I", "O", "0", "_", "A">>
S_ACMP0_1 == <<"A", "C", "M", "P", "0", "_", "1">>
S_I2C0_ == <<"I", "2", "C", "0", "_">>
S_I2C0_EV == <<"I", "2", "C", "0", "_", "E", "V">>
S_HPM5301 == <<"H", "P", "M", "5", "3", "0", "1">>
S_HPM5361 == <<"H", "P", "M", "5", "3", "6", "1">>
S_HPM6454 == <<"H", "P", "M", "6", "4", "5", "4">>
S_HPM1000 == <<"H", "P", "M", "1", "0", "0", "0">>

(* ------------------- sub-signal derivation ---------------------------- *)
\* variant: the timer names get no "CH" in front of the suffix
parse_signal_NoCh(signal_name, periph_name) ==
    IF Contains(signal_name, "_")
    THEN SplitLast(signal_name)
    ELSE IF StartsWith(signal_name, S_I2C)
         THEN S_GLOBAL
         ELSE periph_name

\* dma.rs parse_signal
parse_signal(signal_name, periph_name) ==
    IF Contains(signal_name, "_")
    THEN IF StartsWith(signal_name, S_GPTMR) \/ StartsWith(signal_name, S_NTMR)
         THEN S_CH \o SplitLast(signal_name)
         ELSE SplitLast(signal_name)
    ELSE IF StartsWith(signal_name, S_I2C)
         THEN S_GLOBAL
         ELSE periph_name

\* interrupts.rs parse_interrupt_signal
parse_interrupt_signal(irq_name) ==
    IF Contains(irq_name, "_")
    THEN IF StartsWith(irq_name, S_GPIO)
         THEN S_P \o SplitLast(irq_name)
         ELSE IF StartsWith(irq_name, S_ACMP)
              THEN S_CH \o SplitLast(irq_name)
              ELSE SplitLast(irq_name)
    ELSE S_GLOBAL

\* interrupts.rs fix_interrupt_naming: exact-name substitution table
name_fixes == (S_DAC :> S_DAC0)

fix_interrupt_naming(name) ==
    IF name \in DOMAIN name_fixes THEN name_fixes[name] ELSE name

(* ------------------------ numeric parsing ----------------------------- *)
U8Mod == 256

UsizeHexDigits == 16

HexOrder == <<"0", "1", "2", "3", "4", "5", "6", "7", "8", "9",
              "A", "B", "C", "D", "E", "F">>

DigitVal(c) == (CHOOSE i \in 1..Len(HexOrder) : HexOrder[i] = c) - 1

RECURSIVE RadixValue(_, _)
RadixValue(s, radix) ==
    IF s = <<>> THEN 0
    ELSE RadixValue(SubSeq(s, 1, Len(s) - 1), radix) * radix + DigitVal(s[Len(s)])

RECURSIVE StripZeros(_)
StripZeros(s) ==
    IF s # <<>> /\ s[1] = "0" THEN StripZeros(Tail(s)) ELSE s

\* usize::from_str_radix(&hex_value[2..], 16): the digits after "0x"; the
\* only failure left after the regex is a value wider than usize (64 bits)
from_str_radix_16(hex) ==
    IF Len(StripZeros(hex)) > UsizeHexDigits
    THEN [ok |-> FALSE, v |-> 0]
    ELSE [ok |-> TRUE, v |-> RadixValue(StripZeros(hex), 16)]

\* str::parse::<u8>() on a run of decimal digits
parse_u8(dec) ==
    IF Len(StripZeros(dec)) > 3 \/ RadixValue(StripZeros(dec), 10) >= U8Mod
    THEN [ok |-> FALSE, v |-> 0]
    ELSE [ok |-> TRUE, v |-> RadixValue(StripZeros(dec), 10)]

\* `request_no as u8`: a wrapping cast
as_u8(v) == v % U8Mod

(* --------------------------- header text ------------------------------ *)
\* A DMAMUX header line is `#define HPM_DMA_SRC_<name> (0x<hex>UL)` with
\* arbitrary text in the two holes; the regex accepts it when <name> is
\* \w+ and <hex> is [0-9A-F]+.
DmaLineMatches(line) ==
    /\ line.name # <<>>
    /\ AllIn(line.name, WordChars)
    /\ line.hex # <<>>
    /\ AllIn(line.hex, HexUpper)

\* An IRQ header line is `#define IRQn_<name> <num>` followed or not by a
\* /* comment */; the regex needs \w+, \d+ and the comment.
IrqLineMatches(line) ==
    /\ line.name # <<>>
    /\ AllIn(line.name, WordChars)
    /\ line.num # <<>>
    /\ AllIn(line.num, Digits)
    /\ line.comment

EmptyMap == [k \in {} |-> 0]

\* variant: an entry already present is kept (entry().or_insert())
HashMapInsert_KeepFirst(m, k, v) ==
    [x \in (DOMAIN m) \cup {k} |-> IF x \in DOMAIN m THEN m[x] ELSE v]

\* HashMap::insert: a later value replaces an earlier one under the same key
HashMapInsert(m, k, v) ==
    [x \in (DOMAIN m) \cup {k} |-> IF x = k THEN v ELSE m[x]]

RECURSIVE DmaCollect(_, _)
DmaCollect(matches, n) ==
    IF n = 0 THEN EmptyMap
    ELSE HashMapInsert(DmaCollect(matches, n - 1),
                       matches[n].name,
                       from_str_radix_16(matches[n].hex).v)

RECURSIVE IrqCollect(_, _)
IrqCollect(matches, n) ==
    IF n = 0 THEN EmptyMap
    ELSE HashMapInsert(IrqCollect(matches, n - 1),
                       fix_interrupt_naming(matches[n].name),
                       parse_u8(matches[n].num).v)

DmaMatches(lines) == SelectSeq(lines, DmaLineMatches)

IrqMatches(lines) == SelectSeq(lines, IrqLineMatches)

\* variant: the emptiness check is missing
BailIfEmpty_Never(m) == FALSE

\* dma.rs line 27 / interrupts.rs line 33: `if map.is_empty() { bail!(..) }`
BailIfEmpty(m) == DOMAIN m = {}

\* dma.rs parse_dmamux_from_header; file is the content found at the path
parse_dmamux_from_header(file) ==
    IF ~file.readable THEN [status |-> "err", map |-> EmptyMap]
    ELSE LET matches == DmaMatches(file.lines)
             m == DmaCollect(matches, Len(matches))
         IN IF \E i \in 1..Len(matches) : ~from_str_radix_16(matches[i].hex).ok
            THEN [status |-> "panic", map |-> EmptyMap]
            ELSE IF BailIfEmpty(m)
                 THEN [status |-> "err", map |-> EmptyMap]
                 ELSE [status |-> "ok", map |-> m]

\* interrupts.rs parse_interrupts_from_header
parse_interrupts_from_header(file) ==
    IF ~file.readable THEN [status |-> "err", map |-> EmptyMap]
    ELSE LET matches == IrqMatches(file.lines)
             m == IrqCollect(matches, Len(matches))
         IN IF \E i \in 1..Len(matches) : ~parse_u8(matches[i].num).ok
            THEN [status |-> "panic", map |-> EmptyMap]
            ELSE IF BailIfEmpty(m)
                 THEN [status |-> "err", map |-> EmptyMap]
                 ELSE [status |-> "ok", map |-> m]

(* --------------------------- header locator --------------------------- *)
\* the match arms of get_dmamux_header_path / get_interrupts_header_path,
\* in order; the first arm whose prefix matches wins
SocDirs == <<
    [prefix |-> S_HPM5301, dir |-> "soc/HPM5300/HPM5301"],
    [prefix |-> S_HPM53,   dir |-> "soc/HPM5300/HPM5361"],
    [prefix |-> S_HPM5E,   dir |-> "soc/HPM5E00/HPM5E31"],
    [prefix |-> S_HPM62,   dir |-> "soc/HPM6200/HPM6280"],
    [prefix |-> S_HPM63,   dir |-> "soc/HPM6300/HPM6360"],
    [prefix |-> S_HPM67,   dir |-> "soc/HPM6700/HPM6750"],
    [prefix |-> S_HPM64,   dir |-> "soc/HPM6700/HPM6750"],
    [prefix |-> S_HPM68,   dir |-> "soc/HPM6800/HPM6880"],
    [prefix |-> S_HPM6E,   dir |-> "soc/HPM6E00/HPM6E80"],
    [prefix |-> S_HPM6P,   dir |-> "soc/HPM6P00/HPM6P81"] >>

ArmsMatching(chip_name) ==
    {i \in 1..Len(SocDirs) : StartsWith(chip_name, SocDirs[i].prefix)}

\* tree is the SDK tree below the SDK root: a function from <<dir, file>>
\* to the file found there; header_path.exists() is membership in DOMAIN
HeaderPath(chip_name, file_name, tree) ==
    IF ArmsMatching(chip_name) = {} THEN None
    ELSE LET header_path == <<SocDirs[MinOf(ArmsMatching(chip_name))].dir, file_name>>
         IN IF header_path \in DOMAIN tree THEN Some(header_path) ELSE None

get_dmamux_header_path(chip_name, tree) ==
    HeaderPath(chip_name, "hpm_dmamux_src.h", tree)

get_interrupts_header_path(chip_name, tree) ==
    HeaderPath(chip_name, "hpm_soc_irq.h", tree)

\* variant: a header that does not resolve is reported as an error
load_interrupts_from_header_Strict(chip_name, tree) ==
    LET header_path == get_interrupts_header_path(chip_name, tree)
    IN IF header_path.some
       THEN LET r == parse_interrupts_from_header(tree[header_path.v])
            IN IF r.status = "ok"
               THEN [status |-> "ok", some |-> TRUE, map |-> r.map]
               ELSE [status |-> r.status, some |-> FALSE, map |-> EmptyMap]
       ELSE [status |-> "err", some |-> FALSE, map |-> EmptyMap]

\* interrupts.rs load_interrupts_from_header
load_interrupts_from_header(chip_name, tree) ==
    LET header_path == get_interrupts_header_path(chip_name, tree)
    IN IF header_path.some
       THEN LET r == parse_interrupts_from_header(tree[header_path.v])
            IN IF r.status = "ok"
               THEN [status |-> "ok", some |-> TRUE, map |-> r.map]
               ELSE [status |-> r.status, some |-> FALSE, map |-> EmptyMap]
       ELSE [status |-> "ok", some |-> FALSE, map |-> EmptyMap]

(* ------------------- DMAMUX attach (dma.rs 84-132) -------------------- *)
\* variant: the core is processed whether or not the marker is there
MarkerPending_Always(core) == TRUE

\* `if let Some(_) = core.include_dmamux.take()`: the test ...
MarkerPending(core) == core.include_dmamux.some

\* variant: the marker is read with as_ref() and stays in place
TakeMarker_Peek(core) == core

\* ... and the effect of take()
TakeMarker(core) == [core EXCEPT !.include_dmamux = None]

\* dma.rs 111-113
PeriphMatches(periph, signal_name) == periph.name = SplitFirst(signal_name)

\* dma.rs 119-123
DmaChannel(signal, request_no) ==
    [signal |-> signal, dmamux |-> Some(S_DMAMUX), request |-> as_u8(request_no)]

\* dma.rs 116-124
PushChannel(periph, signal_name, request_no) ==
    [periph EXCEPT !.dma_channels =
        Append(@, DmaChannel(parse_signal(signal_name, periph.name), request_no))]

\* the inner loop, dma.rs 110-126
AttachEntry(periphs, signal_name, request_no) ==
    [j \in DOMAIN periphs |->
        IF PeriphMatches(periphs[j], signal_name)
        THEN PushChannel(periphs[j], signal_name, request_no)
        ELSE periphs[j]]

\* the outer loop, dma.rs 109-127, over the first n keys of one iteration
\* order of the HashMap
RECURSIVE AttachAll(_, _, _, _)
AttachAll(periphs, m, order, n) ==
    IF n = 0 THEN periphs
    ELSE AttachEntry(AttachAll(periphs, m, order, n - 1), order[n], m[order[n]])

\* iteration orders of a HashMap: every arrangement of its keys
KeyOrders(m) ==
    {o \in [1..Cardinality(DOMAIN m) -> DOMAIN m] :
        \A i, j \in DOMAIN o : i # j => o[i] # o[j]}

\* the loop over chip.cores from core i on; orders[i] is the order in which
\* the map parsed for the marked core i is iterated; lookups counts the calls of
\* get_dmamux_header_path made so far
RECURSIVE HandleCores(_, _, _, _, _, _)
HandleCores(cores, i, chip_name, tree, orders, lookups) ==
    IF i > Len(cores)
    THEN [cores |-> cores, status |-> "ok", lookups |-> lookups]
    ELSE IF ~MarkerPending(cores[i])
    THEN HandleCores(cores, i + 1, chip_name, tree, orders, lookups)
    ELSE LET taken == TakeMarker(cores[i])
             header_path == get_dmamux_header_path(chip_name, tree)
         IN IF ~header_path.some
            THEN HandleCores([cores EXCEPT ![i] = taken], i + 1,
                             chip_name, tree, orders, lookups + 1)
            ELSE LET r == parse_dmamux_from_header(tree[header_path.v])
                 IN IF r.status # "ok"
                    THEN [cores |-> [cores EXCEPT ![i] = taken],
                          status |-> r.status, lookups |-> lookups + 1]
                    ELSE HandleCores(
                           [cores EXCEPT ![i] =
                              [taken EXCEPT !.peripherals =
                                 AttachAll(@, r.map, orders[i], Len(orders[i]))]],
                           i + 1, chip_name, tree, orders, lookups + 1)

\* the cores whose marker is pending
Marked(cores) == {i \in 1..Len(cores) : MarkerPending(cores[i])}

\* the map handle_chip_dmamux_include iterates when the header parses
DmamuxOf(chip_name, tree) ==
    LET header_path == get_dmamux_header_path(chip_name, tree)
    IN IF header_path.some
       THEN parse_dmamux_from_header(tree[header_path.v])
       ELSE [status |-> "none", map |-> EmptyMap]

(* --------------- interrupt attach (interrupts.rs 115-145) ------------- *)
\* interrupts.rs 121
PrefixMatches(periph, interrupt) == StartsWith(interrupt.name, periph.name)

\* variant: no special handling of the UART names
UartSkip_Never(periph, interrupt) == FALSE

\* interrupts.rs 125: special handling for UART10+
UartSkip(periph, interrupt) ==
    StartsWith(periph.name, S_UART) /\ periph.name # interrupt.name

\* interrupts.rs 130-139
PushInterrupt(periph, interrupt) ==
    [periph EXCEPT !.interrupts =
        Some(Append(IF @.some THEN @.v ELSE <<>>,
                    [signal |-> parse_interrupt_signal(interrupt.name),
                     interrupt |-> interrupt.name]))]

\* interrupts.rs 120-140
FillEntry(periphs, interrupt) ==
    [j \in DOMAIN periphs |->
        IF ~PrefixMatches(periphs[j], interrupt) THEN periphs[j]
        ELSE IF UartSkip(periphs[j], interrupt) THEN periphs[j]
        ELSE PushInterrupt(periphs[j], interrupt)]

\* interrupts.rs 119-141, over the first n interrupts of the core
RECURSIVE FillCore(_, _, _)
FillCore(periphs, interrupts, n) ==
    IF n = 0 THEN periphs
    ELSE FillEntry(FillCore(periphs, interrupts, n - 1), interrupts[n])

\* interrupts.rs fill_peripheral_interrupts
fill_peripheral_interrupts(c) ==
    [c EXCEPT !.cores =
        [i \in DOMAIN c.cores |->
            [c.cores[i] EXCEPT !.peripherals =
                FillCore(@, c.cores[i].interrupts, Len(c.cores[i].interrupts))]]]

(* ------------------------------ inputs -------------------------------- *)
SeqsUpTo(S, n) == UNION {[1..k -> S] : k \in 0..n}

UsizeOverflowHex == [i \in 1..(UsizeHexDigits + 1) |-> "F"]

DmaLines == {
    [name |-> S_UART10_RX,  hex |-> <<"1", "F">>],
    [name |-> S_UART10_RX,  hex |-> <<"A">>],
    [name |-> S_I2C0,       hex |-> <<"1", "0", "0">>],
    [name |-> S_UART1_,     hex |-> <<"1">>],
    [name |-> S_ADC0,       hex |-> <<"1", "a">>],
    [name |-> S_ADC0,       hex |-> UsizeOverflowHex] }

IrqLines == {
    [name |-> S_DAC,        num |-> <<"7">>,           comment |-> TRUE],
    [name |-> S_DAC0,       num |-> <<"0", "8">>,      comment |-> TRUE],
    [name |-> S_GPIO0_A,    num |-> <<"2", "5", "6">>, comment |-> TRUE],
    [name |-> S_UART10_ERR, num |-> <<"1", "2">>,      comment |-> FALSE] }

Unreadable == [readable |-> FALSE, lines |-> <<>>]

DmaFiles == {[readable |-> TRUE, lines |-> l] : l \in SeqsUpTo(DmaLines, MaxLines)}
                \cup {Unreadable}

IrqFiles == {[readable |-> TRUE, lines |-> l] : l \in SeqsUpTo(IrqLines, MaxLines)}
                \cup {Unreadable}

EmptyTree == [x \in {} |-> Unreadable]

PlacedDir == "soc/HPM6700/HPM6750"

\* SDK trees holding no header, one DMAMUX header or one IRQ header
SdkTrees == {EmptyTree}
    \cup {(<<PlacedDir, "hpm_dmamux_src.h">> :> f) : f \in DmaFiles}
    \cup {(<<PlacedDir, "hpm_soc_irq.h">> :> f) : f \in IrqFiles}

ChipNames == {S_HPM6454, S_HPM1000}

LoadNames == ChipNames \cup {S_HPM5301}

Periph(name) == [name |-> name, dma_channels |-> <<>>, interrupts |-> None]

YamlChannel == [signal |-> <<"T", "X">>, dmamux |-> None, request |-> 7]

DmaPeriphs == <<[Periph(S_UART1) EXCEPT !.dma_channels = <<YamlChannel>>],
                Periph(S_UART10), Periph(S_I2C0), Periph(S_I2C0)>>

DmaCores == {[include_dmamux |-> inc, peripherals |-> DmaPeriphs, interrupts |-> <<>>] :
                inc \in {None, Some("dmamux.yaml")}}

DmaChips == {[name |-> n, cores |-> cs] : n \in ChipNames, cs \in SeqsUpTo(DmaCores, MaxCores)}

Irq(name, number) == [name |-> name, number |-> number]

CoreIrqLists == {
    <<>>,
    <<Irq(S_UART1, 34), Irq(S_UART10_ERR, 35)>>,
    <<Irq(S_GPIO0_A, 1), Irq(S_ACMP0_1, 2)>>,
    <<Irq(S_I2C0_EV, 3), Irq(S_UART10_ERR, 35), Irq(S_UART1, 34)>>,
    <<Irq(S_DAC0, 8), Irq(S_I2C0_, 4), Irq(S_GPIO0_A, 1)>>,
    <<Irq(S_UART1, 34), Irq(S_UART1, 34)>> }

IrqPeriphLists == {
    <<Periph(S_UART1), Periph(S_UART10), Periph(S_GPIO0), Periph(S_ACMP0)>>,
    <<[Periph(S_I2C0) EXCEPT !.interrupts =
          Some(<<[signal |-> S_GLOBAL, interrupt |-> S_I2C0]>>)],
      Periph(S_DAC), Periph(S_UART1), Periph(S_I2C0)>> }

IrqCores == {[include_dmamux |-> None, peripherals |-> ps, interrupts |-> is] :
                ps \in IrqPeriphLists, is \in CoreIrqLists}

IrqChips == {[name |-> S_HPM6454, cores |-> cs] : cs \in SeqsUpTo(IrqCores, MaxCores)}

SignalNames == {S_UART1_RX, S_UART10_RX, S_GPTMR0_CH1, S_GPTMR0_1, S_NTMR0_2,
                S_I2C0, S_I2C0_, S_I2C0_EV, S_I2C1_TX_DATA, S_UART1_, S_ADC0,
                S_GPIO0_A, S_ACMP0_1, S_UART1, S_DAC, S_DAC0, S_UART10_ERR}

PeriphNames == {S_UART1, S_UART10, S_I2C0, S_GPTMR0, S_NTMR0, S_ADC0,
                S_GPIO0, S_ACMP0, S_DAC}

(* ------------------------------ state --------------------------------- *)
\* call: the last call made and what it returned
NoCall == [op |-> "none", status |-> "none", some |-> FALSE, name |-> <<>>,
           periph |-> <<>>, label |-> <<>>, map |-> EmptyMap, lookups |-> 0]

Init ==
    /\ chip \in DmaChips
    /\ pre = chip
    /\ sdk \in SdkTrees
    /\ call = NoCall
    /\ fills = 0

InitIrq ==
    /\ chip \in IrqChips
    /\ pre = chip
    /\ sdk = EmptyTree
    /\ call = NoCall
    /\ fills = 0

InitFn ==
    /\ chip = [name |-> S_HPM1000, cores |-> <<>>]
    /\ pre = chip
    /\ sdk = EmptyTree
    /\ call = NoCall
    /\ fills = 0

\* a panic aborts the process: nothing runs after it
Running == call.status # "panic"

(* ------------------------------ actions ------------------------------- *)
\* handle_chip_dmamux_include(path, &mut chip)
HandleChipDmamuxInclude ==
    /\ Running
    /\ \E orders \in [Marked(chip.cores) -> KeyOrders(DmamuxOf(chip.name, sdk).map)] :
          LET r == HandleCores(chip.cores, 1, chip.name, sdk, orders, 0)
          IN /\ chip' = [chip EXCEPT !.cores = r.cores]
             /\ call' = [NoCall EXCEPT !.op = "handle_chip_dmamux_include",
                                       !.status = r.status,
                                       !.name = chip.name,
                                       !.lookups = r.lookups]
    /\ pre' = chip
    /\ UNCHANGED <<sdk, fills>>

\* parse_dmamux_from_header(header_path) on a header of the tree
ParseDmamuxFromHeader ==
    /\ Running
    /\ \E d \in {PlacedDir} :
          /\ <<d, "hpm_dmamux_src.h">> \in DOMAIN sdk
          /\ LET r == parse_dmamux_from_header(sdk[<<d, "hpm_dmamux_src.h">>])
             IN call' = [NoCall EXCEPT !.op = "parse_dmamux_from_header",
                                       !.status = r.status,
                                       !.map = r.map]
    /\ UNCHANGED <<chip, pre, sdk, fills>>

\* load_interrupts_from_header(chip_name)
LoadInterruptsFromHeader ==
    /\ Running
    /\ \E n \in LoadNames :
          LET r == load_interrupts_from_header(n, sdk)
          IN call' = [NoCall EXCEPT !.op = "load_interrupts_from_header",
                                    !.status = r.status,
                                    !.some = r.some,
                                    !.name = n,
                                    !.map = r.map]
    /\ UNCHANGED <<chip, pre, sdk, fills>>

\* fill_peripheral_interrupts(&mut chip); it has no failing path
FillPeripheralInterrupts ==
    /\ Running
    /\ fills < MaxFills
    /\ chip' = fill_peripheral_interrupts(chip)
    /\ pre' = chip
    /\ call' = [NoCall EXCEPT !.op = "fill_peripheral_interrupts", !.status = "ok"]
    /\ fills' = fills + 1
    /\ UNCHANGED sdk

\* parse_signal(signal_name, periph_name)
ParseSignal ==
    /\ \E s \in SignalNames, p \in PeriphNames :
          call' = [NoCall EXCEPT !.op = "parse_signal", !.status = "ok",
                                 !.name = s, !.periph = p,
                                 !.label = parse_signal(s, p)]
    /\ UNCHANGED <<chip, pre, sdk, fills>>

\* parse_interrupt_signal(irq_name)
ParseInterruptSignal ==
    /\ \E s \in SignalNames :
          call' = [NoCall EXCEPT !.op = "parse_interrupt_signal", !.status = "ok",
                                 !.name = s,
                                 !.label = parse_interrupt_signal(s)]
    /\ UNCHANGED <<chip, pre, sdk, fills>>

\* fix_interrupt_naming(name)
FixInterruptNaming ==
    /\ \E s \in SignalNames :
          call' = [NoCall EXCEPT !.op = "fix_interrupt_naming", !.status = "ok",
                                 !.name = s,
                                 !.label = fix_interrupt_naming(s)]
    /\ UNCHANGED <<chip, pre, sdk, fills>>

Next ==
    \/ HandleChipDmamuxInclude
    \/ ParseDmamuxFromHeader
    \/ LoadInterruptsFromHeader

NextIrq == FillPeripheralInterrupts

NextFn ==
    \/ ParseSignal
    \/ ParseInterruptSignal
    \/ FixInterruptNaming

Spec == Init /\ [][Next]_vars

SpecIrq == InitIrq /\ [][NextIrq]_vars

SpecFn == InitFn /\ [][NextFn]_vars

(* ====================== properties of the extractors ================== *)
IsHandle(c) == c.op = "handle_chip_dmamux_include"

IsLoad(c) == c.op = "load_interrupts_from_header"

NoMarker(c) == \A i \in DOMAIN c.cores : ~c.cores[i].include_dmamux.some

MarkedIn(c) == {i \in DOMAIN c.cores : c.cores[i].include_dmamux.some}

SamePeripherals(a, b) ==
    \A i \in DOMAIN a.cores : a.cores[i].peripherals = b.cores[i].peripherals

MuxRecords(c) ==
    {<<i, j, k>> \in (DOMAIN c.cores) \X (1..8) \X (1..8) :
        /\ j \in DOMAIN c.cores[i].peripherals
        /\ k \in DOMAIN c.cores[i].peripherals[j].dma_channels
        /\ c.cores[i].peripherals[j].dma_channels[k].dmamux.some}

\* the lines of a header that have the #define shape, told from the text
LineIsDmaDefine(line) ==
    /\ Len(line.name) > 0
    /\ \A i \in 1..Len(line.name) : line.name[i] \in WordChars
    /\ Len(line.hex) > 0
    /\ \A i \in 1..Len(line.hex) : line.hex[i] \in HexUpper

LineIsIrqDefine(line) ==
    /\ Len(line.name) > 0
    /\ \A i \in 1..Len(line.name) : line.name[i] \in WordChars
    /\ Len(line.num) > 0
    /\ \A i \in 1..Len(line.num) : line.num[i] \in Digits
    /\ line.comment

DmaDefineCount(file) == Cardinality({i \in 1..Len(file.lines) : LineIsDmaDefine(file.lines[i])})

IrqDefineCount(file) == Cardinality({i \in 1..Len(file.lines) : LineIsIrqDefine(file.lines[i])})

\* C1: a call of handle_chip_dmamux_include on a chip none of whose cores
\* carries the include_dmamux marker changes nothing and looks no header up;
\* and a call that follows a successful call changes nothing.
C1_UnmarkedChipUntouched ==
    [][IsHandle(call') =>
          /\ NoMarker(chip) =>
                (chip' = chip /\ call'.status = "ok" /\ call'.lookups = 0)
          /\ (IsHandle(call) /\ call.status = "ok") =>
                (chip' = chip /\ call'.lookups = 0)]_vars

\* C1 witness: a second call made after a call that attached records
C1_Witness ==
    /\ IsHandle(call)
    /\ call.status = "ok"
    /\ NoMarker(pre)
    /\ chip = pre
    /\ MuxRecords(chip) # {}

\* C2: when handle_chip_dmamux_include returns Ok no core carries the
\* marker, whether its header merged or was missing; and no step ever sets
\* the marker of a core again.
C2_MarkerConsumedOnce ==
    [][/\ (IsHandle(call') /\ call'.status = "ok") => NoMarker(chip')
       /\ \A i \in DOMAIN chip.cores :
             ~chip.cores[i].include_dmamux.some => ~chip'.cores[i].include_dmamux.some]_vars

\* C2 witness: a successful call that skipped two marked cores for want of
\* a header
C2_Witness ==
    /\ IsHandle(call)
    /\ call.status = "ok"
    /\ Cardinality(MarkedIn(pre)) >= 2
    /\ ~get_dmamux_header_path(pre.name, sdk).some
    /\ NoMarker(chip)

\* C8: with no header resolving for the chip name, handle_chip_dmamux_include
\* returns Ok, leaves every peripheral as it was and has gone through every
\* marked core; load_interrupts_from_header returns Ok(None).
C8_MissingHeaderIsSkip ==
    /\ (IsHandle(call) /\ ~get_dmamux_header_path(pre.name, sdk).some) =>
          /\ call.status = "ok"
          /\ SamePeripherals(pre, chip)
          /\ NoMarker(chip)
          /\ call.lookups = Cardinality(MarkedIn(pre))
    /\ (IsLoad(call) /\ ~get_interrupts_header_path(call.name, sdk).some) =>
          /\ call.status = "ok"
          /\ ~call.some

\* C8 witness: two marked cores of a chip of a known family whose header
\* file is absent
C8_Witness ==
    /\ IsHandle(call)
    /\ pre.name = S_HPM6454
    /\ Cardinality(MarkedIn(pre)) >= 2
    /\ ~get_dmamux_header_path(pre.name, sdk).some
    /\ call.lookups = 2

\* C9: a header that is read but holds no matching line is an error for both
\* extractors: load_interrupts_from_header returns Err, never Some(empty);
\* handle_chip_dmamux_include returns Err on a marked core and has attached
\* nothing.
C9_EmptyHeaderFails ==
    /\ IsLoad(call) =>
          /\ ~(call.some /\ DOMAIN call.map = {})
          /\ LET hp == get_interrupts_header_path(call.name, sdk)
             IN (hp.some /\ sdk[hp.v].readable /\ IrqDefineCount(sdk[hp.v]) = 0)
                   => (call.status = "err" /\ ~call.some)
    /\ IsHandle(call) =>
          LET hp == get_dmamux_header_path(pre.name, sdk)
          IN (/\ MarkedIn(pre) # {}
              /\ hp.some
              /\ sdk[hp.v].readable
              /\ DmaDefineCount(sdk[hp.v]) = 0)
                => (call.status = "err" /\ SamePeripherals(pre, chip))

\* C9 witness: a marked core, a header of one line that does not match
C9_Witness ==
    /\ IsHandle(call)
    /\ MarkedIn(pre) # {}
    /\ get_dmamux_header_path(pre.name, sdk).some
    /\ sdk[get_dmamux_header_path(pre.name, sdk).v].readable
    /\ Len(sdk[get_dmamux_header_path(pre.name, sdk).v].lines) = 1
    /\ DmaDefineCount(sdk[get_dmamux_header_path(pre.name, sdk).v]) = 0
    /\ call.status = "err"

\* what a line that has the #define shape writes as its value; wider than
\* 8 bits is told from the digits, so that no oversized number is computed
SignificantHex(line) ==
    LET nz == {i \in 1..Len(line.hex) : line.hex[i] # "0"}
    IN IF nz = {} THEN 0 ELSE Len(line.hex) - MinOf(nz) + 1

ExceedsU8(line) == SignificantHex(line) > 2

\* the decoded value of the hex texts that occur in the headers
WrittenValue == (<<"1", "F">> :> 31) @@ (<<"A">> :> 10) @@ (<<"1">> :> 1)
                   @@ (<<"1", "0", "0">> :> 256)

DmaHeaderOf(c) == sdk[get_dmamux_header_path(c.name, sdk).v]

\* the records a call appended to peripheral j of core i
Appended(i, j) ==
    SubSeq(chip.cores[i].peripherals[j].dma_channels,
           Len(pre.cores[i].peripherals[j].dma_channels) + 1,
           Len(chip.cores[i].peripherals[j].dma_channels))

\* C3: a header entry whose value does not fit in 8 bits makes
\* handle_chip_dmamux_include fail; it never returns Ok after processing a
\* marked core against a header that holds such an entry.
C3_OversizedRequestIsFatal ==
    (/\ IsHandle(call)
     /\ MarkedIn(pre) # {}
     /\ get_dmamux_header_path(pre.name, sdk).some
     /\ DmaHeaderOf(pre).readable
     /\ \E n \in 1..Len(DmaHeaderOf(pre).lines) :
           /\ LineIsDmaDefine(DmaHeaderOf(pre).lines[n])
           /\ ExceedsU8(DmaHeaderOf(pre).lines[n]))
       => call.status # "ok"

\* C4: every DmaChannel record and every peripheral-level Interrupt record
\* of the chip has a non-empty signal name.
C4_SignalNamesNonEmpty ==
    \A i \in DOMAIN chip.cores :
       \A j \in DOMAIN chip.cores[i].peripherals :
          LET p == chip.cores[i].peripherals[j]
          IN /\ \A k \in DOMAIN p.dma_channels : p.dma_channels[k].signal # <<>>
             /\ p.interrupts.some =>
                   \A k \in DOMAIN p.interrupts.v : p.interrupts.v[k].signal # <<>>

\* the text of name before its first '_', told position by position
IsPrefixBeforeUnderscore(t, name) ==
    /\ Len(t) <= Len(name)
    /\ \A k \in 1..Len(t) : t[k] = name[k] /\ t[k] # "_"
    /\ (Len(t) < Len(name) => name[Len(t) + 1] = "_")

\* C10: after a successful call, for every marked core and every peripheral
\* P of it, the old records are kept in front, and behind them stands one
\* record per parsed entry (name, value) whose text before the first '_' is
\* exactly P.name, with mux-instance "DMAMUX" and request = value, and no
\* other record.
C10_AttachByExactPrefix ==
    (IsHandle(call) /\ call.status = "ok" /\ get_dmamux_header_path(pre.name, sdk).some) =>
       \A i \in MarkedIn(pre) :
          \A j \in DOMAIN pre.cores[i].peripherals :
             LET old == pre.cores[i].peripherals[j].dma_channels
                 new == chip.cores[i].peripherals[j].dma_channels
                 lines == DmaHeaderOf(pre).lines
                 hits == {n \in 1..Len(lines) :
                             /\ LineIsDmaDefine(lines[n])
                             /\ IsPrefixBeforeUnderscore(pre.cores[i].peripherals[j].name,
                                                         lines[n].name)}
                 names == {lines[n].name : n \in hits}
             IN /\ Len(new) = Len(old) + Cardinality(names)
                /\ SubSeq(new, 1, Len(old)) = old
                /\ \A k \in DOMAIN Appended(i, j) :
                      Appended(i, j)[k].dmamux = Some(S_DMAMUX)
                /\ \A nm \in names :
                      \E k \in DOMAIN Appended(i, j), n \in hits :
                         /\ lines[n].name = nm
                         /\ Appended(i, j)[k].request = WrittenValue[lines[n].hex]

\* C7 as stated: the mapping returned for a header has as many entries as
\* the header has matching lines, each line's NAME mapped to its value.
C7_SizeEqualsMatchCount ==
    (call.op = "parse_dmamux_from_header" /\ call.status = "ok") =>
       LET lines == sdk[<<PlacedDir, "hpm_dmamux_src.h">>].lines
       IN /\ Cardinality(DOMAIN call.map) = DmaDefineCount(sdk[<<PlacedDir, "hpm_dmamux_src.h">>])
          /\ \A n \in 1..Len(lines) :
                LineIsDmaDefine(lines[n]) =>
                   /\ lines[n].name \in DOMAIN call.map
                   /\ call.map[lines[n].name] = WrittenValue[lines[n].hex]

\* C7 amended: the mapping has one entry per distinct NAME among the
\* matching lines, and each NAME is mapped to the value of the last matching
\* line that carries it.
C7_OneEntryPerName ==
    (call.op = "parse_dmamux_from_header" /\ call.status = "ok") =>
       LET lines == sdk[<<PlacedDir, "hpm_dmamux_src.h">>].lines
           hits == {n \in 1..Len(lines) : LineIsDmaDefine(lines[n])}
       IN /\ DOMAIN call.map = {lines[n].name : n \in hits}
          /\ Cardinality(DOMAIN call.map) = Cardinality({lines[n].name : n \in hits})
          /\ \A n \in hits :
                (\A n2 \in hits : lines[n2].name = lines[n].name => n2 <= n)
                   => call.map[lines[n].name] = WrittenValue[lines[n].hex]

\* C7 witness: a header of two matching lines with one NAME and two values
C7_Witness ==
    /\ call.op = "parse_dmamux_from_header"
    /\ call.status = "ok"
    /\ Len(sdk[<<PlacedDir, "hpm_dmamux_src.h">>].lines) = 2
    /\ DmaDefineCount(sdk[<<PlacedDir, "hpm_dmamux_src.h">>]) = 2
    /\ Cardinality(DOMAIN call.map) = 1
    /\ sdk[<<PlacedDir, "hpm_dmamux_src.h">>].lines[1].hex
          # sdk[<<PlacedDir, "hpm_dmamux_src.h">>].lines[2].hex

\* p is an initial part of s, told position by position
IsInitialPart(p, s) ==
    /\ Len(p) <= Len(s)
    /\ \A k \in 1..Len(p) : p[k] = s[k]

HasNoUnderscore(s) == \A k \in 1..Len(s) : s[k] # "_"

\* the part of s behind its last '_'
FinalSegment(s) ==
    LET k == CHOOSE n \in 1..Len(s) :
                 s[n] = "_" /\ \A n2 \in (n + 1)..Len(s) : s[n2] # "_"
    IN [t \in 1..(Len(s) - k) |-> s[k + t]]

\* C5 as stated: "GPTMR0_CH1" gives "CH1", "I2C0" gives "GLOBAL", a name
\* without '_' that does not start with "I2C" gives the peripheral's name.
C5_LabelsAsStated ==
    call.op = "parse_signal" =>
       /\ call.name = <<"G", "P", "T", "M", "R", "0", "_", "C", "H", "1">>
             => call.label = <<"C", "H", "1">>
       /\ call.name = <<"I", "2", "C", "0">>
             => call.label = <<"G", "L", "O", "B", "A", "L">>
       /\ (HasNoUnderscore(call.name) /\ ~IsInitialPart(<<"I", "2", "C">>, call.name))
             => call.label = call.periph

\* C5 amended: "GPTMR0_CH1" gives "CHCH1" ("CH" put before the final segment
\* "CH1"); "GPTMR0_1" gives "CH1"; the other two cases as stated.
C5_LabelsOfParseSignal ==
    call.op = "parse_signal" =>
       /\ call.name = <<"G", "P", "T", "M", "R", "0", "_", "C", "H", "1">>
             => call.label = <<"C", "H", "C", "H", "1">>
       /\ call.name = <<"G", "P", "T", "M", "R", "0", "_", "1">>
             => call.label = <<"C", "H", "1">>
       /\ call.name = <<"I", "2", "C", "0">>
             => call.label = <<"G", "L", "O", "B", "A", "L">>
       /\ (HasNoUnderscore(call.name) /\ ~IsInitialPart(<<"I", "2", "C">>, call.name))
             => call.label = call.periph

\* C5 witness: parse_signal has been applied to "GPTMR0_CH1"
C5_Witness ==
    /\ call.op = "parse_signal"
    /\ call.name = <<"G", "P", "T", "M", "R", "0", "_", "C", "H", "1">>
    /\ call.label = <<"C", "H", "C", "H", "1">>

IsFill(c) == c.op = "fill_peripheral_interrupts"

ShouldAttach(P, I) ==
    /\ IsInitialPart(P.name, I.name)
    /\ ~(IsInitialPart(<<"U", "A", "R", "T">>, P.name) /\ P.name # I.name)

LabelOf(name) ==
    IF HasNoUnderscore(name) THEN <<"G", "L", "O", "B", "A", "L">>
    ELSE IF IsInitialPart(<<"G", "P", "I", "O">>, name) THEN <<"P">> \o FinalSegment(name)
    ELSE IF IsInitialPart(<<"A", "C", "M", "P">>, name) THEN <<"C", "H">> \o FinalSegment(name)
    ELSE FinalSegment(name)

\* one record per interrupt of the core that should attach to P, in order
RECURSIVE RecordsFor(_, _, _)
RecordsFor(P, irqs, n) ==
    IF n = 0 THEN <<>>
    ELSE IF ShouldAttach(P, irqs[n])
         THEN Append(RecordsFor(P, irqs, n - 1),
                     [signal |-> LabelOf(irqs[n].name), interrupt |-> irqs[n].name])
         ELSE RecordsFor(P, irqs, n - 1)

InterruptsOf(P) == IF P.interrupts.some THEN P.interrupts.v ELSE <<>>

\* C6: fill_peripheral_interrupts appends to peripheral P one record
\* (derived label, interrupt name) for each interrupt I of P's own core with
\* P.name an initial part of I.name, unless P.name starts with "UART" and
\* differs from I.name, and nothing else; "UART1" gets nothing from
\* "UART10_ERR" and one record from "UART1"; "GPIO0_A" is labelled "PA",
\* "ACMP0_1" is labelled "CH1", a name without '_' "GLOBAL".
C6_FillAttachesByPrefix ==
    IsFill(call) =>
       \A i \in DOMAIN pre.cores :
          \A j \in DOMAIN pre.cores[i].peripherals :
             LET P == pre.cores[i].peripherals[j]
                 Q == chip.cores[i].peripherals[j]
                 irqs == pre.cores[i].interrupts
                 recs == RecordsFor(P, irqs, Len(irqs))
                 added == SubSeq(InterruptsOf(Q), Len(InterruptsOf(P)) + 1,
                                 Len(InterruptsOf(Q)))
             IN /\ InterruptsOf(Q) = InterruptsOf(P) \o recs
                /\ Q.name = P.name
                /\ Q.dma_channels = P.dma_channels
                /\ P.name = <<"U", "A", "R", "T", "1">> =>
                      /\ \A k \in DOMAIN added :
                            /\ added[k].interrupt = <<"U", "A", "R", "T", "1">>
                            /\ added[k].signal = <<"G", "L", "O", "B", "A", "L">>
                      /\ Len(added) = Cardinality({n \in DOMAIN irqs :
                                          irqs[n].name = <<"U", "A", "R", "T", "1">>})
                /\ \A k \in DOMAIN added :
                      /\ added[k].interrupt = <<"G", "P", "I", "O", "0", "_", "A">>
                            => added[k].signal = <<"P", "A">>
                      /\ added[k].interrupt = <<"A", "C", "M", "P", "0", "_", "1">>
                            => added[k].signal = <<"C", "H", "1">>

\* C6 witness: a core with the interrupts "UART1" and "UART10_ERR" whose
\* peripheral "UART1" holds exactly the record of "UART1" after the call
C6_Witness ==
    /\ IsFill(call)
    /\ \E i \in DOMAIN pre.cores :
          /\ \E n \in DOMAIN pre.cores[i].interrupts :
                pre.cores[i].interrupts[n].name
                   = <<"U", "A", "R", "T", "1", "0", "_", "E", "R", "R">>
          /\ \E j \in DOMAIN pre.cores[i].peripherals :
                /\ pre.cores[i].peripherals[j].name = <<"U", "A", "R", "T", "1">>
                /\ ~pre.cores[i].peripherals[j].interrupts.some
                /\ chip.cores[i].peripherals[j].interrupts
                      = Some(<<[signal |-> <<"G", "L", "O", "B", "A", "L">>,
                                interrupt |-> <<"U", "A", "R", "T", "1">>]>>)

====
